---- MODULE Spec2Model ----
(***************************************************************************)
(* A model of src/codemod/undecorate.ts: the jscodeshift transform that    *)
(* rewrites mobx decorators (and decorate(...) calls) into decorator-free  *)
(* class members.  The syntax tree is modelled as records: a file holds    *)
(* its mobx import declarations, its class declarations and its            *)
(* decorate(...) call statements.  One run of tranform is split at the     *)
(* source's own phases (import scan, decorate calls, class loop, import    *)
(* patch, result); a second run is fed the printed and re-parsed output    *)
(* of the first.                                                           *)
(***************************************************************************)
EXTENDS Integers, Sequences, FiniteSets, TLC

VARIABLES
    ignoreImports,          \* options?.ignoreImports
    src,                    \* the tree as parsed from fileInfo.source
    file,                   \* the tree being mutated in place
    pc,                     \* phase of tranform
    run,                    \* 1: first run, 2: run on the first run's output
    decoratorsUsed,         \* Set of decorator names in scope
    usesDecorate,
    changed,
    needsInitializeImport,
    warnings,               \* what warn / console.warn printed, in order
    synthesized,            \* per class: keys of the members created by decorate calls, in creation order
    attached,               \* per decorate call: the entries whose decorator was put on a member
    result                  \* "none" | "unchanged" | "source"

vars == <<ignoreImports, src, file, pc, run, decoratorsUsed, usesDecorate, changed,
          needsInitializeImport, warnings, synthesized, attached, result>>

----------------------------------------------------------------------------
(* Bounds of the enumerated inputs *)

MaxMembers == 3
MaxEntries == 2
MaxRuns == 2

----------------------------------------------------------------------------
(* Sequence helpers (Array.prototype.splice / filter / findIndex) *)

Splice(s, i, e) == SubSeq(s, 1, i) \o <<e>> \o SubSeq(s, i + 1, Len(s))

RemoveAt(s, i) == SubSeq(s, 1, i - 1) \o SubSeq(s, i + 1, Len(s))

RECURSIVE FilterIdx(_, _, _)
FilterIdx(s, keep, i) ==
    IF i > Len(s) THEN <<>>
    ELSE (IF i \in keep THEN <<s[i]>> ELSE <<>>) \o FilterIdx(s, keep, i + 1)

\* findIndex over 1-based positions; 0 plays the part of -1
FirstIdx(s, ok) == IF ok = {} THEN 0 ELSE CHOOSE i \in ok : \A k \in ok : i <= k

LastIdx(s, ok) == IF ok = {} THEN 0 ELSE CHOOSE i \in ok : \A k \in ok : i >= k

----------------------------------------------------------------------------
(* Expressions.  t: "null" (no initializer), "none" (undefined / false),   *)
(* "arrow", "function", "expr" (any other expression), "arg" (a            *)
(* decorator's call argument), "ClassMethod" (a method node used as an     *)
(* expression by parseProperty), "call".  of: the method a function was    *)
(* made from.                                                              *)

Val(t) == [t |-> t, callee |-> <<>>, args |-> <<>>, of |-> <<>>]

Null == Val("null")

None == Val("none")

Falsy(v) == v.t \in {"null", "none"}

validDecorators == {"action", "observable", "computed"}

\* a decorator expression; shape: "Id" | "Member" | "CallId" | "CallMember" |
\* "Complex" (neither of these) | "CallComplex" (a call of neither) | "Array"
Dec(shape, base, sub, nargs) == [shape |-> shape, base |-> base, sub |-> sub, nargs |-> nargs]

isCallExpression(d) == d.shape \in {"CallId", "CallMember", "CallComplex"}

\* j.filter(Boolean) over an argument list
RECURSIVE FilterBoolean(_)
FilterBoolean(args) ==
    IF args = <<>> THEN <<>>
    ELSE (IF Falsy(Head(args)) THEN <<>> ELSE <<Head(args)>>) \o FilterBoolean(Tail(args))

fnCall(name, args) ==
    [t |-> "call", callee |-> SelectSeq(name, LAMBDA n : n # ""),
     args |-> FilterBoolean(args), of |-> <<>>]

toArrowFn(m) ==
    IF m.t = "arrow" \/ m.t # "ClassMethod" THEN m
    ELSE [t |-> IF m.of[3] = "generator" THEN "function" ELSE "arrow",
          callee |-> <<>>, args |-> <<>>, of |-> m.of]

----------------------------------------------------------------------------
(* Class members *)

Member(mtype, kind, key, static, generator, decorators, value, body) ==
    [mtype |-> mtype, kind |-> kind, key |-> key, static |-> static,
     generator |-> generator, decorators |-> decorators, value |-> value, body |-> body]

Field(key, decorators, value) ==
    Member("ClassProperty", "field", key, FALSE, FALSE, decorators, value, <<>>)

Method(kind, key, decorators) ==
    Member("ClassMethod", kind, key, FALSE, FALSE, decorators, Null, <<>>)

isClassMethod(m) == m.mtype = "ClassMethod"

isClassProperty(m) == m.mtype = "ClassProperty"

\* the method node as parseProperty hands it on (expr: ClassMethod.check(p) ? p : p.value)
AsExpr(m) ==
    [t |-> "ClassMethod", callee |-> <<>>, args |-> <<>>,
     of |-> <<m.kind, m.key, IF m.generator THEN "generator" ELSE "plain">>]

----------------------------------------------------------------------------
(* warn(msg, node): the diagnostics are kept as the message and the class   *)
(* member (or decorate entry) they were printed for                         *)

Warn(msg, key) == [msg |-> msg, key |-> key]

----------------------------------------------------------------------------
(* parseProperty: the decorator of p told apart by its shape, the sibling   *)
(* setter looked up in the class body (idx 0: none)                         *)

parseProperty(p, body) ==
    LET decExpr == p.decorators[1]
        simple == decExpr.shape \in {"Id", "Member", "CallId", "CallMember"}
        setters == {i \in 1..Len(body) :
                        isClassMethod(body[i]) /\ body[i].kind = "set" /\ body[i].key = p.key}
    IN  [isCallExpression |-> isCallExpression(decExpr),
         baseDecorator |-> IF simple THEN decExpr.base ELSE "",
         subDecorator |-> IF decExpr.shape \in {"Member", "CallMember"} THEN decExpr.sub ELSE "",
         type |-> IF isClassMethod(p) THEN (IF p.kind = "get" THEN "getter" ELSE "method")
                  ELSE "field",
         expr |-> IF isClassMethod(p) THEN AsExpr(p) ELSE p.value,
         callArg |-> IF isCallExpression(decExpr) /\ decExpr.nargs >= 1 THEN Val("arg") ELSE None,
         setterExpr |-> FirstIdx(body, setters),
         warns |-> (IF simple THEN <<>> ELSE <<Warn("too complex", p.key)>>)
                   \o (IF isCallExpression(decExpr) /\ decExpr.nargs # 1
                       THEN <<Warn("expected one argument", p.key)>> ELSE <<>>)]

----------------------------------------------------------------------------
(* generateActionInitializationOnPrototype: the statement inserted after    *)
(* the class, Bla.prototype.key = action(callArg?, Bla.prototype.key)       *)

ProtoRef(clazzId, key) == [t |-> "expr", callee |-> <<>>, args |-> <<>>, of |-> <<clazzId, "prototype", key>>]

generateActionInitializationOnPrototype(clazzId, property, propInfo) ==
    IF clazzId = ""
    THEN [after |-> <<>>, warns |-> <<Warn("anonymous class", property.key)>>]
    ELSE [after |-> <<[target |-> ProtoRef(clazzId, property.key),
                       value |-> fnCall(<<"action">>,
                                        <<propInfo.callArg, ProtoRef(clazzId, property.key)>>)]>>,
          warns |-> <<>>]

----------------------------------------------------------------------------
(* handleProperty: what the class loop's map returns for one member.        *)
(* node: the member returned; fresh: it is a new node (j.classProperty)     *)
(* rather than the member itself; remove: body positions pushed on          *)
(* effects.membersToRemove.                                                 *)

HandledNoConstructor(node, fresh, ch, ctor, remove, warns, after) ==
    [node |-> node, fresh |-> fresh, changed |-> ch, needsConstructor |-> FALSE,
     remove |-> remove, warns |-> warns, after |-> after]

Handled(node, fresh, ch, ctor, remove, warns, after) ==
    [node |-> node, fresh |-> fresh, changed |-> ch, needsConstructor |-> ctor,
     remove |-> remove, warns |-> warns, after |-> after]

Untouched(property, warns) == Handled(property, FALSE, FALSE, FALSE, {}, warns, <<>>)

\* line 278: only a bare identifier is looked up in decoratorsUsed
ScopeRejects(expr, scope) == expr.shape = "Id" /\ expr.base \notin scope

\* ["action", j.FunctionExpression.check(arrowFn) && "bound"]
BoundCallee(arrowFn) == <<"action", IF arrowFn.t = "function" THEN "bound" ELSE "">>

handleProperty(property, body, clazzId, scope) ==
    LET decorators == property.decorators IN
    IF Len(decorators) = 0 THEN Untouched(property, <<>>)
    ELSE IF Len(decorators) > 1
    THEN Untouched(property, <<Warn("multiple decorators", property.key)>>)
    ELSE IF ScopeRejects(decorators[1], scope)
    THEN Untouched(property, <<Warn("non-mobx decorator", property.key)>>)
    ELSE IF property.static
    THEN Untouched(property, <<Warn("static", property.key)>>)
    ELSE
    LET propInfo == parseProperty(property, body)
        \* property.decorators.splice(0)
        stripped == [property EXCEPT !.decorators = <<>>]
        base == propInfo.baseDecorator
        sub == propInfo.subDecorator
    IN  CASE base = "action" /\ propInfo.type = "field" /\ sub = "bound" ->
                LET arrowFn == toArrowFn(property.value) IN
                Handled([stripped EXCEPT !.value =
                            fnCall(BoundCallee(arrowFn), <<propInfo.callArg, arrowFn>>)],
                        FALSE, TRUE, FALSE, {}, propInfo.warns, <<>>)
          [] base = "action" /\ propInfo.type = "method" /\ sub = "bound" ->
                LET arrowFn == toArrowFn(propInfo.expr) IN
                Handled(Field(property.key, <<>>,
                              fnCall(BoundCallee(arrowFn), <<propInfo.callArg, arrowFn>>)),
                        TRUE, TRUE, FALSE, {}, propInfo.warns, <<>>)
          [] base = "action" /\ propInfo.type = "field" /\ sub = "" ->
                Handled([stripped EXCEPT !.value =
                            fnCall(<<"action">>, <<propInfo.callArg, property.value>>)],
                        FALSE, TRUE, FALSE, {}, propInfo.warns, <<>>)
          [] base = "action" /\ propInfo.type = "method" /\ sub # "bound" ->
                LET g == generateActionInitializationOnPrototype(clazzId, property, propInfo) IN
                Handled(stripped, FALSE, TRUE, FALSE, {}, propInfo.warns \o g.warns, g.after)
          [] base = "action" /\ propInfo.type = "field" /\ sub \notin {"", "bound"} ->
                Handled(stripped, FALSE, TRUE, FALSE, {},
                        propInfo.warns \o <<Warn("unknown case", property.key)>>, <<>>)
          [] base = "action" /\ propInfo.type = "getter" ->
                Handled(stripped, FALSE, TRUE, FALSE, {},
                        propInfo.warns \o <<Warn("unknown case", property.key)>>, <<>>)
          [] base = "observable" ->
                Handled([stripped EXCEPT !.value =
                            fnCall(<<"observable", sub>>, <<property.value>>)],
                        FALSE, TRUE, TRUE, {}, propInfo.warns, <<>>)
          [] base = "computed" ->
                Handled(Field(property.key, <<>>,
                              fnCall(<<"computed", sub>>,
                                     <<toArrowFn(propInfo.expr),
                                       IF propInfo.setterExpr # 0
                                       THEN toArrowFn(AsExpr(body[propInfo.setterExpr]))
                                       ELSE None,
                                       propInfo.callArg>>)),
                        TRUE, TRUE, TRUE,
                        IF propInfo.setterExpr # 0 THEN {propInfo.setterExpr} ELSE {},
                        propInfo.warns, <<>>)
          [] OTHER -> Handled(stripped, FALSE, FALSE, FALSE, {}, propInfo.warns, <<>>)

----------------------------------------------------------------------------
(* createConstructor *)

superCall == "super"

initializeObservablesCall == "initializeObservables"

hasSuper(c) == Len(c.body) > 0 /\ c.body[1] = superCall

NewConstructorBody(needsSuper) ==
    IF needsSuper THEN <<superCall, initializeObservablesCall>>
    ELSE <<initializeObservablesCall>>

HookOffsetAlwaysFirst(c) == 0

\* c.body.body.splice(hasSuper ? 1 : 0, 0, initializeObservablesCall)
HookOffset(c) == IF hasSuper(c) THEN 1 ELSE 0

createConstructor(clazz) ==
    LET body == clazz.body
        needsSuper == clazz.superClass
        constructorIndex == FirstIdx(body, {i \in 1..Len(body) :
                                isClassMethod(body[i]) /\ body[i].kind = "constructor"})
        constructorDecl == Member("MethodDefinition", "constructor", "constructor", FALSE, FALSE,
                                  <<>>, Null, NewConstructorBody(needsSuper))
        firstMethodIndex == FirstIdx(body, {i \in 1..Len(body) : isClassMethod(body[i])})
    IN  IF constructorIndex = 0
        THEN [body |-> IF firstMethodIndex = 0 THEN Append(body, constructorDecl)
                       ELSE Splice(body, firstMethodIndex - 1, constructorDecl),
              warns |-> IF needsSuper THEN <<Warn("generated constructor", clazz.id)>> ELSE <<>>]
        ELSE LET c == body[constructorIndex] IN
             [body |-> [body EXCEPT ![constructorIndex].body =
                            Splice(c.body, HookOffset(c), initializeObservablesCall)],
              warns |-> <<>>]

----------------------------------------------------------------------------
(* The class loop's body for one class declaration (lines 210-231) *)

RECURSIVE ConcatWarns(_, _)
ConcatWarns(rs, i) == IF i > Len(rs) THEN <<>> ELSE rs[i].warns \o ConcatWarns(rs, i + 1)

\* clazzPath.insertAfter puts each statement directly behind the class
RECURSIVE InsertedAfter(_, _)
InsertedAfter(rs, i) == IF i > Len(rs) THEN <<>> ELSE InsertedAfter(rs, i + 1) \o rs[i].after

\* .filter(elem => !effects.membersToRemove.includes(elem)): a member the map
\* replaced by a new node is no longer the node that was pushed
Kept(rs) ==
    LET membersToRemove == UNION {rs[i].remove : i \in 1..Len(rs)}
    IN  {i \in 1..Len(rs) : ~(i \in membersToRemove /\ ~rs[i].fresh)}

handleClass(clazz, scope) ==
    LET body == clazz.body
        rs == [i \in 1..Len(body) |->
                  IF isClassProperty(body[i]) \/ isClassMethod(body[i])
                  THEN handleProperty(body[i], body, clazz.id, scope)
                  ELSE Untouched(body[i], <<>>)]
        mapped == [i \in 1..Len(body) |-> rs[i].node]
        filtered == [clazz EXCEPT !.body = FilterIdx(mapped, Kept(rs), 1),
                                  !.after = InsertedAfter(rs, 1) \o clazz.after]
        needsConstructor == \E i \in 1..Len(rs) : rs[i].needsConstructor
        ctor == createConstructor(filtered)
    IN  [clazz |-> IF needsConstructor THEN [filtered EXCEPT !.body = ctor.body] ELSE filtered,
         changed |-> \E i \in 1..Len(rs) : rs[i].changed,
         needsConstructor |-> needsConstructor,
         warns |-> ConcatWarns(rs, 1) \o (IF needsConstructor THEN ctor.warns ELSE <<>>)]

----------------------------------------------------------------------------
(* The decorate(...) calls (lines 102-207) *)

isObservableValueBareOnly(v) == v.shape = "Id" /\ v.base = "observable"

\* prop.value is observable, or a member expression on observable
isObservableValue(v) == v.shape \in {"Id", "Member"} /\ v.base = "observable"

\* the class a decorate call names: one in the call's own block if there is
\* one, else the first of that name (0: none)
FindClass(classes, call) ==
    LET declarations == {i \in 1..Len(classes) :
                            classes[i].id # "" /\ classes[i].id = call.target}
        bestDeclarations == {i \in declarations : classes[i].block = call.block}
    IN  IF bestDeclarations # {} THEN FirstIdx(classes, bestDeclarations)
        ELSE FirstIdx(classes, declarations)

SynthOffset(insertedMemberOffset) == insertedMemberOffset

\* decorators.properties.forEach over the entries from position k on;
\* st: [body, insertedMemberOffset, canRemoveDecorateCall, warns, synth, att]
RECURSIVE forEachProperty(_, _, _, _)
forEachProperty(entries, k, target, st) ==
    IF k > Len(entries) THEN st
    ELSE
    LET prop == entries[k]
        name == prop.key
        found == FirstIdx(st.body, {i \in 1..Len(st.body) :
                    (isClassProperty(st.body[i]) \/ isClassMethod(st.body[i]))
                    /\ st.body[i].key = name})
        decorated(body, i) == [body EXCEPT ![i].decorators = <<prop.value>>]
    IN  IF ~prop.plain
        THEN forEachProperty(entries, k + 1, target,
                [st EXCEPT !.canRemoveDecorateCall = FALSE,
                           !.warns = @ \o <<Warn("expected plain property", name)>>])
        ELSE IF prop.value.shape = "Array"
        THEN forEachProperty(entries, k + 1, target,
                [st EXCEPT !.canRemoveDecorateCall = FALSE,
                           !.warns = @ \o <<Warn("composed decorators", name)>>])
        ELSE IF found # 0
        THEN forEachProperty(entries, k + 1, target,
                [st EXCEPT !.body = decorated(@, found), !.att = Append(@, k)])
        ELSE IF isObservableValue(prop.value)
        THEN forEachProperty(entries, k + 1, target,
                [st EXCEPT !.body = decorated(Splice(@, SynthOffset(st.insertedMemberOffset),
                                                     Field(name, <<>>, Null)),
                                              SynthOffset(st.insertedMemberOffset) + 1),
                           !.insertedMemberOffset = @ + 1,
                           !.synth = Append(@, name),
                           !.att = Append(@, k)])
        ELSE forEachProperty(entries, k + 1, target,
                [st EXCEPT !.canRemoveDecorateCall = FALSE,
                           !.warns = @ \o <<Warn("failed to find member", name)>>])

\* one decorate call; fs: [classes, calls, warns, changed, synth, att]
decorateCall(fs, c) ==
    LET call == fs.calls[c]
        clazz == FindClass(fs.classes, call)
        skip(msg) == [fs EXCEPT !.warns = @ \o <<Warn(msg, call.target)>>]
    IN  IF call.shape = "argc" THEN skip("expected two arguments")
        ELSE IF call.shape = "target" THEN skip("expected an identifier")
        ELSE IF call.shape = "object" THEN skip("expected a plain object")
        ELSE IF clazz = 0 THEN skip("expected one class declaration")
        ELSE
        LET st == forEachProperty(call.entries, 1, call.target,
                     [body |-> fs.classes[clazz].body, insertedMemberOffset |-> 0,
                      canRemoveDecorateCall |-> TRUE, warns |-> <<>>,
                      synth |-> <<>>, att |-> <<>>])
        IN  [classes |-> [fs.classes EXCEPT ![clazz].body = st.body],
             calls |-> [fs.calls EXCEPT ![c].removed = st.canRemoveDecorateCall],
             warns |-> fs.warns \o st.warns,
             changed |-> TRUE,
             synth |-> [fs.synth EXCEPT ![clazz] = @ \o st.synth],
             att |-> [fs.att EXCEPT ![c] = st.att]]

RECURSIVE forEachCall(_, _)
forEachCall(fs, c) ==
    IF c > Len(fs.calls) THEN fs ELSE forEachCall(decorateCall(fs, c), c + 1)

----------------------------------------------------------------------------
(* The tree *)

Class(id, superClass, block, body) ==
    [id |-> id, superClass |-> superClass, block |-> block, body |-> body, after |-> <<>>]

Entry(plain, key, value) == [plain |-> plain, key |-> key, value |-> value]

Call(shape, target, block, entries) ==
    [shape |-> shape, target |-> target, block |-> block, entries |-> entries, removed |-> FALSE]

File(imports, classes, calls) == [imports |-> imports, classes |-> classes, calls |-> calls]

\* source.toSource() read back by the parser: a pruned statement is gone, the
\* generated constructor is an ordinary class method, and a value hung on a
\* method node is not printed
ReparseMember(m) ==
    IF m.mtype = "ClassProperty" THEN m
    ELSE [m EXCEPT !.mtype = "ClassMethod", !.value = Null]

Reparse(f) ==
    [imports |-> f.imports,
     classes |-> [i \in 1..Len(f.classes) |->
                    [f.classes[i] EXCEPT !.body =
                        [k \in 1..Len(f.classes[i].body) |-> ReparseMember(f.classes[i].body[k])]]],
     calls |-> SelectSeq(f.calls, LAMBDA c : ~c.removed)]

----------------------------------------------------------------------------
(* tranform, phase by phase *)

\* lines 75-99: the scope set, usesDecorate, and the decorate specifier spliced out
ScopeOf(opt, imports) ==
    (IF opt THEN validDecorators ELSE {})
    \cup {n \in validDecorators : \E i \in 1..Len(imports) : \E k \in 1..Len(imports[i]) :
                                      imports[i][k] = n}

importsDecorate(im) == \E k \in 1..Len(im) : im[k] = "decorate"

SpliceDecorate(im) ==
    LET decorateIndex == LastIdx(im, {k \in 1..Len(im) : im[k] = "decorate"})
    IN  IF decorateIndex # 0 THEN RemoveAt(im, decorateIndex) ELSE im

ScanImports ==
    /\ pc = "imports"
    /\ decoratorsUsed' = ScopeOf(ignoreImports, file.imports)
    /\ usesDecorate' = (ignoreImports \/ \E i \in 1..Len(file.imports) : importsDecorate(file.imports[i]))
    /\ file' = [file EXCEPT !.imports = [i \in 1..Len(file.imports) |-> SpliceDecorate(file.imports[i])]]
    /\ pc' = "decorate"
    /\ UNCHANGED <<ignoreImports, src, run, changed, needsInitializeImport, warnings,
                   synthesized, attached, result>>

\* lines 102-207
RewriteDecorateCalls ==
    /\ pc = "decorate"
    /\ LET fs == IF usesDecorate
                 THEN forEachCall([classes |-> file.classes, calls |-> file.calls,
                                   warns |-> warnings, changed |-> changed,
                                   synth |-> synthesized, att |-> attached], 1)
                 ELSE [classes |-> file.classes, calls |-> file.calls,
                       warns |-> warnings, changed |-> changed,
                       synth |-> synthesized, att |-> attached]
       IN  /\ file' = [file EXCEPT !.classes = fs.classes, !.calls = fs.calls]
           /\ warnings' = fs.warns
           /\ changed' = fs.changed
           /\ synthesized' = fs.synth
           /\ attached' = fs.att
    /\ pc' = "classes"
    /\ UNCHANGED <<ignoreImports, src, run, decoratorsUsed, usesDecorate,
                   needsInitializeImport, result>>

\* lines 210-231
RewriteClasses ==
    /\ pc = "classes"
    /\ LET hs == [i \in 1..Len(file.classes) |-> handleClass(file.classes[i], decoratorsUsed)]
       IN  /\ file' = [file EXCEPT !.classes = [i \in 1..Len(hs) |-> hs[i].clazz]]
           /\ changed' = (changed \/ \E i \in 1..Len(hs) : hs[i].changed)
           /\ needsInitializeImport' = \E i \in 1..Len(hs) : hs[i].needsConstructor
           /\ warnings' = warnings \o ConcatWarns(hs, 1)
    /\ pc' = "patch"
    /\ UNCHANGED <<ignoreImports, src, run, decoratorsUsed, usesDecorate,
                   synthesized, attached, result>>

\* lines 232-249
PatchImport ==
    /\ pc = "patch"
    /\ IF ~needsInitializeImport
       THEN UNCHANGED <<file, warnings>>
       ELSE IF Len(file.imports) = 0
       THEN /\ warnings' = Append(warnings, Warn("failed to find mobx import", ""))
            /\ UNCHANGED file
       ELSE /\ file' = [file EXCEPT !.imports[1] = Append(@, "initializeObservables")]
            /\ UNCHANGED warnings
    /\ pc' = "result"
    /\ UNCHANGED <<ignoreImports, src, run, decoratorsUsed, usesDecorate, changed,
                   needsInitializeImport, synthesized, attached, result>>

\* lines 250-255
ResultOf(used, decorate, ch) ==
    IF used = {} /\ ~decorate THEN "unchanged"
    ELSE IF ch THEN "source" ELSE "unchanged"

Finish ==
    /\ pc = "result"
    /\ result' = ResultOf(decoratorsUsed, usesDecorate, changed)
    /\ pc' = "done"
    /\ UNCHANGED <<ignoreImports, src, file, run, decoratorsUsed, usesDecorate, changed,
                   needsInitializeImport, warnings, synthesized, attached>>

\* what the caller writes back: the printed tree, or the source as it was
Output == IF result = "source" THEN Reparse(file) ELSE src

\* the transform run again, with the same options, on what the last run produced
Rerun ==
    /\ pc = "done"
    /\ run < MaxRuns
    /\ run' = run + 1
    /\ src' = Output
    /\ file' = Output
    /\ pc' = "imports"
    /\ decoratorsUsed' = {}
    /\ usesDecorate' = FALSE
    /\ changed' = FALSE
    /\ needsInitializeImport' = FALSE
    /\ warnings' = <<>>
    /\ synthesized' = [i \in 1..Len(Output.classes) |-> <<>>]
    /\ attached' = [i \in 1..Len(Output.calls) |-> <<>>]
    /\ result' = "none"
    /\ UNCHANGED ignoreImports

Next == ScanImports \/ RewriteDecorateCalls \/ RewriteClasses \/ PatchImport \/ Finish \/ Rerun

Start(opt, f) ==
    /\ ignoreImports = opt
    /\ src = f
    /\ file = f
    /\ pc = "imports"
    /\ run = 1
    /\ decoratorsUsed = {}
    /\ usesDecorate = FALSE
    /\ changed = FALSE
    /\ needsInitializeImport = FALSE
    /\ warnings = <<>>
    /\ synthesized = [i \in 1..Len(f.classes) |-> <<>>]
    /\ attached = [i \in 1..Len(f.calls) |-> <<>>]
    /\ result = "none"

----------------------------------------------------------------------------
(* The enumerated inputs: trees the parser can produce *)

SeqsUpTo(S, n) == UNION {[1..k -> S] : k \in 0..n}

Bases == validDecorators \cup {"foo"}

Subs == {"bound", "ref"}

SingleDecorators ==
    {Dec("Id", b, "", 0) : b \in Bases}
    \cup {Dec("Member", b, sub, 0) : b \in Bases, sub \in Subs}
    \cup {Dec("CallId", b, "", n) : b \in Bases, n \in 0..1}
    \cup {Dec("CallMember", b, sub, 1) : b \in Bases, sub \in Subs}
    \cup {Dec("Complex", "", "", 0), Dec("CallComplex", "", "", 1)}

DecoratorLists ==
    {<<>>} \cup {<<d>> : d \in SingleDecorators}
    \cup {<<Dec("Id", "observable", "", 0), Dec("Id", "foo", "", 0)>>}

FieldValues == {Null, Val("arrow"), Val("function"), Val("expr")}

\* every member kind under every decorator list
AnyMember ==
    {Member("ClassProperty", "field", "x", st, FALSE, ds, v, <<>>) :
        st \in BOOLEAN, ds \in DecoratorLists, v \in FieldValues}
    \cup {Member("ClassMethod", "method", "x", st, g, ds, Null, <<>>) :
        st \in BOOLEAN, ds \in DecoratorLists, g \in BOOLEAN}
    \cup {Member("ClassMethod", k, "x", st, FALSE, ds, Null, <<>>) :
        st \in BOOLEAN, ds \in DecoratorLists, k \in {"get", "set"}}

AllImported == <<<<"action", "observable", "computed">>>>

\* one class (named or anonymous) holding one member
MemberInputs ==
    {<<opt, File(im, <<Class(id, FALSE, 0, <<m>>)>>, <<>>)>> :
        opt \in BOOLEAN,
        im \in {<<>>, <<<<"action">>>>, AllImported},
        id \in {"A", ""},
        m \in AnyMember}

ConstructorBodies == {<<>>, <<superCall>>, <<superCall, "stmt">>, <<"stmt", superCall>>}

\* members whose rewrites touch their siblings or the constructor
SiblingMembers ==
    {Field("f", <<>>, Val("expr")), Method("method", "m", <<>>),
     Field("o", <<Dec("Id", "observable", "", 0)>>, Val("expr")),
     Method("get", "x", <<Dec("Id", "computed", "", 0)>>),
     Method("get", "x", <<Dec("CallMember", "computed", "ref", 1)>>),
     Method("set", "x", <<>>),
     Method("set", "x", <<Dec("Member", "action", "bound", 0)>>)}
    \cup {Member("ClassMethod", "constructor", "constructor", FALSE, FALSE, <<>>, Null, b) :
            b \in ConstructorBodies}

Constructors(body) == {i \in 1..Len(body) : body[i].kind = "constructor"}

\* one class of up to MaxMembers members, with at most one constructor
ClassInputs ==
    {<<FALSE, File(AllImported, <<Class("A", sup, 0, body)>>, <<>>)>> :
        sup \in BOOLEAN,
        body \in {b \in SeqsUpTo(SiblingMembers, MaxMembers) : Cardinality(Constructors(b)) <= 1}}

EntryValues ==
    {Dec("Id", "observable", "", 0), Dec("Member", "observable", "ref", 0),
     Dec("Id", "action", "", 0), Dec("Array", "", "", 0)}

Entries ==
    {Entry(TRUE, k, v) : k \in {"x", "s", "n", "p"}, v \in EntryValues}
    \cup {Entry(FALSE, "x", Dec("Id", "observable", "", 0))}

DecoratedBody ==
    <<Field("x", <<>>, Val("expr")),
      Member("ClassProperty", "field", "s", TRUE, FALSE, <<>>, Val("expr"), <<>>),
      Method("method", "m", <<>>)>>

SecondCalls ==
    {<<>>,
     <<Call("ok", "A", 0, <<Entry(TRUE, "q", Dec("Id", "observable", "", 0))>>)>>,
     <<Call("ok", "A", 0, <<Entry(TRUE, "q", Dec("Array", "", "", 0))>>)>>}

DecorateScopes ==
    {<<FALSE, <<<<"observable", "action", "decorate">>>>>>,
     <<FALSE, <<<<"decorate">>>>>>,
     <<TRUE, <<>>>>}

\* a class with a field, a static field and a method, and one or two decorate calls
DecorateInputs ==
    {<<sc[1], File(sc[2], <<Class("A", FALSE, 0, DecoratedBody)>>,
                   <<Call("ok", "A", 0, es)>> \o second)>> :
        sc \in DecorateScopes,
        es \in SeqsUpTo(Entries, MaxEntries),
        second \in SecondCalls}

\* two classes of one name in different blocks, and malformed calls
TargetInputs ==
    {<<FALSE, File(<<<<"observable", "decorate">>>>,
                   <<Class("A", FALSE, 0, <<Field("x", <<>>, Null)>>),
                     Class("A", TRUE, 1, <<Field("x", <<>>, Null)>>)>>,
                   <<Call(shape, t, b, <<Entry(TRUE, k, Dec("Id", "observable", "", 0))>>)>>)>> :
        shape \in {"ok", "argc", "target", "object"}, t \in {"A", "Z"}, b \in 0..2,
        k \in {"x", "n"}}

TwoDecorators == <<Dec("Id", "observable", "", 0), Dec("Id", "foo", "", 0)>>

\* a class with a member under two decorators: a field that a decorate call
\* may name, or the setter next to a computed getter
MultiDecoratorInputs ==
    {<<sc[1], File(sc[2], <<Class("A", FALSE, 0, body)>>, calls)>> :
        sc \in DecorateScopes \cup {<<FALSE, AllImported>>},
        body \in {<<Field("x", TwoDecorators, Val("expr")), Method("method", "m", <<>>)>>,
                  <<Method("get", "x", <<Dec("Id", "computed", "", 0)>>),
                    Method("set", "x", TwoDecorators)>>},
        calls \in {<<>>} \cup {<<Call("ok", "A", 0, <<Entry(TRUE, "x", v)>>)>> : v \in EntryValues}}

Inputs ==
    MemberInputs \cup ClassInputs \cup DecorateInputs \cup TargetInputs
    \cup MultiDecoratorInputs

Init == \E in \in Inputs : Start(in[1], in[2])

Spec == Init /\ [][Next]_vars

----------------------------------------------------------------------------
(* Vocabulary of the properties *)

Range(s) == {s[i] : i \in 1..Len(s)}

Keys(body) == [i \in 1..Len(body) |-> body[i].key]

\* the step of the class loop, seen from outside: file is the tree before it
\* and file' the tree after it
ClassLoop == pc = "classes" /\ pc' = "patch"

TypeOf(m) == IF isClassMethod(m) THEN (IF m.kind = "get" THEN "getter" ELSE "method") ELSE "field"

Simple(d) == d.shape \in {"Id", "Member", "CallId", "CallMember"}

SubOf(d) == IF d.shape \in {"Member", "CallMember"} THEN d.sub ELSE ""

\* the rows of the rewriter's dispatch table
TableRow(base, type, sub) ==
    \/ base = "action" /\ type \in {"field", "method"} /\ sub \in {"", "bound"}
    \/ base = "observable" /\ type = "field"
    \/ base = "computed" /\ type = "getter"

\* a member with one decorator, of an instance member, whose base is in scope
Eligible(m, scope) ==
    /\ m.mtype \in {"ClassProperty", "ClassMethod"}
    /\ Len(m.decorators) = 1
    /\ ~m.static
    /\ Simple(m.decorators[1]) => m.decorators[1].base \in scope

Unsupported(m, clazzId, scope) ==
    /\ Eligible(m, scope)
    /\ LET d == m.decorators[1] IN
       \/ ~Simple(d)
       \/ Simple(d) /\ d.base \in validDecorators /\ ~TableRow(d.base, TypeOf(m), SubOf(d))
       \/ d.base = "action" /\ TypeOf(m) = "method" /\ SubOf(d) = "" /\ clazzId = ""

\* C2: every member the rewriter does not support (no row of the dispatch
\* table, a decorator that is too complex, a plain action method of an
\* anonymous class) is still in the class after the class loop exactly as it
\* was, decorator included, and a warning was printed for it.
C2_UnsupportedLeftAsIs ==
    [][ClassLoop =>
        \A c \in 1..Len(file.classes) : \A i \in 1..Len(file.classes[c].body) :
            Unsupported(file.classes[c].body[i], file.classes[c].id, decoratorsUsed)
            => /\ file.classes[c].body[i] \in Range(file'.classes[c].body)
               /\ \E w \in Len(warnings) + 1 .. Len(warnings') :
                      warnings'[w].key = file.classes[c].body[i].key]_vars

\* C3: a member whose single decorator has a base name outside the scope
\* set is left untouched with the non-mobx warning, whichever of the shapes
\* Id, A.B, Id(arg), A.B(arg) the decorator has.
C3_OutOfScopeRejected ==
    [][ClassLoop =>
        \A c \in 1..Len(file.classes) : \A i \in 1..Len(file.classes[c].body) :
            LET m == file.classes[c].body[i] IN
            (/\ m.mtype \in {"ClassProperty", "ClassMethod"}
             /\ Len(m.decorators) = 1
             /\ Simple(m.decorators[1])
             /\ m.decorators[1].base \notin decoratorsUsed)
            => /\ m \in Range(file'.classes[c].body)
               /\ \E w \in Len(warnings) + 1 .. Len(warnings') :
                      warnings'[w] = Warn("non-mobx decorator", m.key)]_vars

NoMobxNames(f) ==
    \A i \in 1..Len(f.imports) : \A k \in 1..Len(f.imports[i]) :
        f.imports[i][k] \notin validDecorators \cup {"decorate"}

\* C4: a file that imports none of action, observable, computed, decorate
\* from the library, run without ignoreImports, gives the unchanged result
\* and no diagnostic at all.
C4_NoMobxSilentNoOp ==
    (pc = "done" /\ ~ignoreImports /\ NoMobxNames(src))
    => (result = "unchanged" /\ warnings = <<>>)

\* C1: the run on the output of a previous run reports the file unchanged
\* or yields the tree it was given.
C1_Idempotent ==
    (pc = "done" /\ run >= 2) => (result = "unchanged" \/ Output = src)

----------------------------------------------------------------------------
(* decorate calls *)

\* the class of the c-th decorate call of the run's input (0: none)
TargetOf(c) == FindClass(src.classes, src.calls[c])

\* the call passed the shape checks and its entries were gone through
Processed(c) == usesDecorate /\ src.calls[c].shape = "ok" /\ TargetOf(c) # 0

\* entry k of call c ended as a member without decorators
EntryConverted(c, k) ==
    LET e == src.calls[c].entries[k]
        body == file.classes[TargetOf(c)].body
    IN  /\ k \in Range(attached[c])
        /\ \E i \in 1..Len(body) : body[i].key = e.key /\ body[i].decorators = <<>>

\* C5: a decorate call statement is removed if and only if every entry of
\* its mapping was converted, the named member ending decorator-free.
C5_RemovedIffAllConverted ==
    pc = "done" =>
        \A c \in 1..Len(src.calls) :
            Processed(c) =>
                (file.calls[c].removed
                 <=> \A k \in 1..Len(src.calls[c].entries) : EntryConverted(c, k))

DeclaredKeys(clazz) ==
    {clazz.body[i].key : i \in {k \in 1..Len(clazz.body) :
                                  clazz.body[k].mtype \in {"ClassProperty", "ClassMethod"}}}

\* entry k of call c names a member the class does not declare, with an
\* observable value
UndeclaredObservable(c, k) ==
    LET e == src.calls[c].entries[k] IN
    /\ e.plain
    /\ e.value.base = "observable" /\ e.value.shape \in {"Id", "Member"}
    /\ e.key \notin DeclaredKeys(src.classes[TargetOf(c)])

ObservableField(e) == Field(e.key, <<>>, fnCall(<<"observable", SubOf(e.value)>>, <<>>))

LastForKey(c, k) ==
    /\ \A k2 \in k + 1 .. Len(src.calls[c].entries) :
            src.calls[c].entries[k2].key # src.calls[c].entries[k].key
    /\ \A c2 \in c + 1 .. Len(src.calls) :
            (Processed(c2) /\ TargetOf(c2) = TargetOf(c))
            => \A k2 \in 1..Len(src.calls[c2].entries) :
                    src.calls[c2].entries[k2].key # src.calls[c].entries[k].key

C10_SynthesizedInOrder ==
    pc = "done" =>
        \A c \in 1..Len(file.classes) :
            /\ Len(synthesized[c]) <= Len(file.classes[c].body)
            /\ SubSeq(Keys(file.classes[c].body), 1, Len(synthesized[c])) = synthesized[c]

----------------------------------------------------------------------------
(* the class loop *)

Generated(m) == m.mtype = "MethodDefinition"

WithoutGenerated(body) == SelectSeq(body, LAMBDA m : ~Generated(m))

\* member i of the class is a getter the computed rewrite applies to
ComputedGetter(clazz, i, scope) ==
    LET m == clazz.body[i] IN
    /\ isClassMethod(m) /\ m.kind = "get"
    /\ Eligible(m, scope)
    /\ Simple(m.decorators[1]) /\ m.decorators[1].base = "computed"

\* the sibling setter of member i (0: none)
SetterOf(clazz, i) ==
    FirstIdx(clazz.body, {j \in 1..Len(clazz.body) :
        isClassMethod(clazz.body[j]) /\ clazz.body[j].kind = "set"
        /\ clazz.body[j].key = clazz.body[i].key})

\* what C7 says of getter i with setter j across the class loop: the body
\* afterwards (the generated constructor apart) is the body before with the
\* setter taken out, member for member in the same order, the members that
\* carried no decorator unchanged; and the getter's place holds the field
\* whose computed(...) call has the setter's function as second argument
SetterFolded(pre, post, i, j) ==
    LET rest == RemoveAt(pre, j)
        out == WithoutGenerated(post)
        at == IF j < i THEN i - 1 ELSE i
    IN  /\ Keys(out) = Keys(rest)
        /\ \A p \in 1..Len(rest) :
              (rest[p].decorators = <<>> /\ rest[p].kind # "constructor") => out[p] = rest[p]
        /\ out[at].mtype = "ClassProperty"
        /\ out[at].value.t = "call"
        /\ out[at].value.callee[1] = "computed"
        /\ Len(out[at].value.args) >= 2
        /\ out[at].value.args[2] = toArrowFn(AsExpr(pre[j]))

\* C7: converting a computed getter that has a sibling setter of the same
\* key removes the setter, passes its body as the second argument of the
\* computed call and keeps the other members in their order, the setter
\* standing before or after the getter.
C7_SetterFolded ==
    [][ClassLoop =>
        \A c \in 1..Len(file.classes) : \A i \in 1..Len(file.classes[c].body) :
            (ComputedGetter(file.classes[c], i, decoratorsUsed) /\ SetterOf(file.classes[c], i) # 0)
            => SetterFolded(file.classes[c].body, file'.classes[c].body, i,
                            SetterOf(file.classes[c], i))]_vars

\* a member the observable or computed rewrite applies to
NeedsConstructor(clazz, scope) ==
    \E i \in 1..Len(clazz.body) :
        /\ Eligible(clazz.body[i], scope)
        /\ Simple(clazz.body[i].decorators[1])
        /\ clazz.body[i].decorators[1].base \in {"observable", "computed"}

ConstructorsOf(body) == {i \in 1..Len(body) : body[i].kind = "constructor"}

HookPlaced(old) ==
    IF Len(old) > 0 /\ old[1] = superCall
    THEN <<superCall, initializeObservablesCall>> \o Tail(old)
    ELSE <<initializeObservablesCall>> \o old

\* C8: for a class that needs a constructor, the hook call is the second
\* statement of an existing constructor that starts with super(...), and
\* the first statement otherwise; a class without constructor gets one with
\* body [super(), hook] if it has a superclass and [hook] if not, directly
\* before the first method member, or last when the class has no method.
C8_ConstructorHook ==
    [][ClassLoop =>
        \A c \in 1..Len(file.classes) :
            NeedsConstructor(file.classes[c], decoratorsUsed) =>
            LET pre == file.classes[c].body
                post == file'.classes[c].body
                had == ConstructorsOf(pre)
                has == ConstructorsOf(post)
            IN  /\ Cardinality(has) = 1
                /\ \A p \in has :
                    IF had # {}
                    THEN \A q \in had : post[p].body = HookPlaced(pre[q].body)
                    ELSE /\ post[p].body = (IF file.classes[c].superClass
                                            THEN <<superCall, initializeObservablesCall>>
                                            ELSE <<initializeObservablesCall>>)
                         /\ \A q \in 1..(p - 1) : ~isClassMethod(post[q])
                         /\ p < Len(post) => isClassMethod(post[p + 1])]_vars

\* C9: for a member decorated action.bound, field or method, the generated
\* call is action(...) only when the wrapped value is an arrow function and
\* action.bound(...) for every wrapped value that is not one.
C9_BoundKept ==
    [][ClassLoop =>
        \A c \in 1..Len(file.classes) : \A i \in 1..Len(file.classes[c].body) :
            LET m == file.classes[c].body[i]
                wrappedIsArrow == IF isClassMethod(m) THEN ~m.generator ELSE m.value.t = "arrow"
            IN  (/\ Eligible(m, decoratorsUsed)
                 /\ Simple(m.decorators[1])
                 /\ m.decorators[1].base = "action" /\ SubOf(m.decorators[1]) = "bound"
                 /\ TypeOf(m) \in {"field", "method"}
                 /\ isClassProperty(m) => m.value # Null)
                => \E p \in 1..Len(file'.classes[c].body) :
                     LET r == file'.classes[c].body[p] IN
                     /\ r.key = m.key /\ r.value.t = "call"
                     /\ r.value.callee = IF wrappedIsArrow THEN <<"action">>
                                         ELSE <<"action", "bound">>]_vars

\* C11: a member that carries more than one decorator when the run starts is
\* in its class after the run with the same decorators, kind and value, also
\* when an entry of a decorate call names it.
C11_MultiDecoratorUntouched ==
    pc = "done" =>
        \A c \in 1..Len(src.classes) : \A i \in 1..Len(src.classes[c].body) :
            Len(src.classes[c].body[i].decorators) > 1
            => src.classes[c].body[i] \in Range(file.classes[c].body)

\* a member whose value is a call of observable or computed
ObservableOrComputed(m) ==
    m.value.t = "call" /\ m.value.callee[1] \in {"observable", "computed"}

\* the members of post the class loop rewrote as observable or computed
RewrittenAs(pre, post) ==
    {p \in 1..Len(post) : ObservableOrComputed(post[p]) /\ post[p] \notin Range(pre)}

\* the hook calls in the constructors of a class body, as (member, statement)
HookCalls(body) ==
    UNION {{<<p, k>> : k \in {j \in 1..Len(body[p].body) :
                                body[p].body[j] = initializeObservablesCall}} :
           p \in ConstructorsOf(body)}

ConstructorSeq(body) == SelectSeq(body, LAMBDA m : m.kind = "constructor")

\* C12: in one run of the class loop, a class with at least one member
\* rewritten as observable or computed has one constructor, holding exactly
\* one hook call more than before, however many such members there are; a
\* class with no such member keeps its constructors as they were, and gets
\* no hook call and no new constructor.
C12_OneHookPerClass ==
    [][ClassLoop =>
        \A c \in 1..Len(file.classes) :
            LET pre == file.classes[c].body
                post == file'.classes[c].body
            IN  IF RewrittenAs(pre, post) # {}
                THEN /\ Cardinality(ConstructorsOf(post)) = 1
                     /\ Cardinality(HookCalls(post)) = Cardinality(HookCalls(pre)) + 1
                ELSE ConstructorSeq(post) = ConstructorSeq(pre)]_vars

C12_Witness ==
    /\ pc = "patch" /\ run = 1
    /\ \E c \in 1..Len(src.classes) :
        /\ Cardinality(RewrittenAs(src.classes[c].body, file.classes[c].body)) >= 2
        /\ HookCalls(src.classes[c].body) = {}
        /\ Cardinality(HookCalls(file.classes[c].body)) = 1

C8_Witness ==
    /\ pc = "patch" /\ run = 1
    /\ \E c \in 1..Len(src.classes) :
        /\ NeedsConstructor(src.classes[c], decoratorsUsed)
        /\ \E q \in ConstructorsOf(src.classes[c].body) : \E p \in ConstructorsOf(file.classes[c].body) :
            /\ src.classes[c].body[q].body = <<superCall, "stmt">>
            /\ file.classes[c].body[p].body = <<superCall, initializeObservablesCall, "stmt">>

====
